---- MODULE Spec2Model ----
(***************************************************************************)
(* A model of the ergonomadic IRC front end: the Router link multiplexer   *)
(* (src/irc/router.go) and the command parser (src/irc/commands.go).       *)
(*                                                                         *)
(* Strings are sequences of one-character strings, so that splitting,      *)
(* upper-casing and normalisation are computed and not assumed.            *)
(***************************************************************************)
EXTENDS Integers, Sequences, FiniteSets, TLC

\* ------------------------------------------------------------------------
\* Bounds of the model
\* ------------------------------------------------------------------------

\* downlink connections the listener accepts
MaxDownlinks == 2
\* lines each downlink client sends
MaxLines == 2
\* records the peer sends over the uplink
MaxInbound == 2
\* failed Accept calls
MaxAcceptErrors == 1
\* pieces appended to a line of each family
MaxLinePieces == 4
MaxJoinPieces == 5
MaxUserModePieces == 6
MaxChanModePieces == 6
MaxUserPieces == 4
MaxCredPieces == 3

\* ------------------------------------------------------------------------
\* Router state
\* ------------------------------------------------------------------------

VARIABLES
    connected,    \* Router.Connect has set connector/decoder/writer/encoder
    listening,    \* Router.Listen has started the acceptor goroutine
    crashed,      \* a goroutine panicked: the process is gone
    conns,        \* Router.conns: id -> downlink (0 is nil)
    local,        \* RouterConn.conn.LocalAddr() of each accepted downlink
    pc,           \* position of each downlink's CopyTo goroutine
    cur,          \* the line a CopyTo goroutine holds
    nread,        \* lines read so far from each downlink
    wbuf,         \* Router.writer: the records in buf[0:n]
    wire,         \* the records written to Router.connector so far
    upc,          \* position of the ReadAll goroutine
    ndecoded,     \* records decoded by ReadAll so far
    lastRouted,   \* what the last ReadAll iteration did
    acceptErrs    \* failed Accept calls so far

\* ------------------------------------------------------------------------
\* Parser state: one protocol line, built up and then parsed
\* ------------------------------------------------------------------------

VARIABLES
    family,       \* which lines this run builds
    line,         \* the protocol line
    npieces,      \* pieces appended to the line so far
    phase,        \* "build", "parsed", then "inspected", "loaded", "checked"
    result,       \* what ParseCommand returned
    derived       \* what an accessor of the parsed command returned

parseVars == <<family, line, npieces, phase, result, derived>>

routerVars == <<connected, listening, crashed, conns, local, pc, cur, nread,
                wbuf, wire, upc, ndecoded, lastRouted, acceptErrs>>

Downlinks == 1 .. MaxDownlinks

\* The local endpoints a connection accepted by the listener can have: the
\* listening address itself, or one address per interface for a wildcard bind.
LocalAddrs == {"10.0.0.1:6667", "127.0.0.1:6667"}

\* An origin id no downlink of this process has.
ForeignId == "10.9.9.9:6667"

NoLine == <<0, 0>>

\* The k-th line the client of downlink d sends.
LineOf(d, k) == <<d, k>>

\* RouterConn.Id: the local endpoint of the connection.
Id(d) == local[d]

RouterMessage(id, message) == [Id |-> id, Message |-> message]

Accepted == {d \in Downlinks : pc[d] # "none"}

NextDownlink == Cardinality(Accepted) + 1

RouterInit ==
    /\ connected = FALSE
    /\ listening = FALSE
    /\ crashed = FALSE
    /\ conns = [a \in LocalAddrs \cup {ForeignId} |-> 0]
    /\ local = [d \in Downlinks |-> ""]
    /\ pc = [d \in Downlinks |-> "none"]
    /\ cur = [d \in Downlinks |-> NoLine]
    /\ nread = [d \in Downlinks |-> 0]
    /\ wbuf = <<>>
    /\ wire = <<>>
    /\ upc = "none"
    /\ ndecoded = 0
    /\ lastRouted = [id |-> "", to |-> 0, ok |-> FALSE]
    /\ acceptErrs = 0

\* Router.Connect: dial succeeded; the codec is set and ReadAll is started.
Connect ==
    /\ ~crashed
    /\ ~connected
    /\ connected' = TRUE
    /\ upc' = "read"
    /\ UNCHANGED <<listening, crashed, conns, local, pc, cur, nread, wbuf,
                   wire, ndecoded, lastRouted, acceptErrs>>
    /\ UNCHANGED parseVars

\* Router.Listen: the listener is open and the acceptor goroutine started.
Listen ==
    /\ ~crashed
    /\ ~listening
    /\ listening' = TRUE
    /\ UNCHANGED <<connected, crashed, conns, local, pc, cur, nread, wbuf,
                   wire, upc, ndecoded, lastRouted, acceptErrs>>
    /\ UNCHANGED parseVars

\* One iteration of the acceptor loop with a successful Accept: the new
\* connection is stored under its Id and its CopyTo goroutine started.
Accept ==
    /\ ~crashed
    /\ listening
    /\ NextDownlink \in Downlinks
    /\ \E a \in LocalAddrs :
        LET d == NextDownlink IN
        /\ local' = [local EXCEPT ![d] = a]
        /\ conns' = [conns EXCEPT ![a] = d]
        /\ pc' = [pc EXCEPT ![d] = "read"]
    /\ UNCHANGED <<connected, listening, crashed, cur, nread, wbuf, wire,
                   upc, ndecoded, lastRouted, acceptErrs>>
    /\ UNCHANGED parseVars

\* The acceptor loop with a break in place of the continue: a failed Accept
\* ends the acceptor.
AcceptErrorEndsLoop ==
    /\ ~crashed
    /\ listening
    /\ acceptErrs < MaxAcceptErrors
    /\ acceptErrs' = acceptErrs + 1
    /\ listening' = FALSE
    /\ UNCHANGED <<connected, crashed, conns, local, pc, cur, nread, wbuf,
                   wire, upc, ndecoded, lastRouted>>
    /\ UNCHANGED parseVars

\* One iteration of the acceptor loop with a failed Accept: logged, and the
\* loop continues.
AcceptError ==
    /\ ~crashed
    /\ listening
    /\ acceptErrs < MaxAcceptErrors
    /\ acceptErrs' = acceptErrs + 1
    /\ UNCHANGED <<connected, listening, crashed, conns, local, pc, cur,
                   nread, wbuf, wire, upc, ndecoded, lastRouted>>
    /\ UNCHANGED parseVars

\* CopyTo: ReadString returned the next line.
ReadLine(d) ==
    /\ ~crashed
    /\ pc[d] = "read"
    /\ nread[d] < MaxLines
    /\ nread' = [nread EXCEPT ![d] = @ + 1]
    /\ cur' = [cur EXCEPT ![d] = LineOf(d, nread[d] + 1)]
    /\ pc' = [pc EXCEPT ![d] = "write"]
    /\ UNCHANGED <<connected, listening, crashed, conns, local, wbuf, wire,
                   upc, ndecoded, lastRouted, acceptErrs>>
    /\ UNCHANGED parseVars

\* CopyTo: ReadString failed (the client went away); the loop breaks.
ReadError(d) ==
    /\ ~crashed
    /\ pc[d] = "read"
    /\ pc' = [pc EXCEPT ![d] = "done"]
    /\ UNCHANGED <<connected, listening, crashed, conns, local, cur, nread,
                   wbuf, wire, upc, ndecoded, lastRouted, acceptErrs>>
    /\ UNCHANGED parseVars

\* Router.Write without an uplink: router.encoder is nil and Encode panics.
WriteNoUplink(d) ==
    /\ ~crashed
    /\ pc[d] = "write"
    /\ ~connected
    /\ crashed' = TRUE
    /\ UNCHANGED <<connected, listening, conns, local, pc, cur, nread, wbuf,
                   wire, upc, ndecoded, lastRouted, acceptErrs>>
    /\ UNCHANGED parseVars

\* Router.Write: Encode takes the encoder's own mutex.  Nothing else in
\* Write is guarded.
EncodeBegin(d) ==
    /\ ~crashed
    /\ pc[d] = "write"
    /\ connected
    /\ \A e \in Downlinks : pc[e] # "encoding"
    /\ pc' = [pc EXCEPT ![d] = "encoding"]
    /\ UNCHANGED <<connected, listening, crashed, conns, local, cur, nread,
                   wbuf, wire, upc, ndecoded, lastRouted, acceptErrs>>
    /\ UNCHANGED parseVars

\* Router.Write: Encode writes the record into router.writer's buffer and
\* releases the mutex.
EncodeEnd(d) ==
    /\ ~crashed
    /\ pc[d] = "encoding"
    /\ wbuf' = Append(wbuf, RouterMessage(Id(d), cur[d]))
    /\ pc' = [pc EXCEPT ![d] = "flush"]
    /\ UNCHANGED <<connected, listening, crashed, conns, local, cur, nread,
                   wire, upc, ndecoded, lastRouted, acceptErrs>>
    /\ UNCHANGED parseVars

\* Router.Write: Encode failed; Write returns the error and CopyTo breaks.
EncodeError(d) ==
    /\ ~crashed
    /\ pc[d] = "encoding"
    /\ pc' = [pc EXCEPT ![d] = "done"]
    /\ UNCHANGED <<connected, listening, crashed, conns, local, cur, nread,
                   wbuf, wire, upc, ndecoded, lastRouted, acceptErrs>>
    /\ UNCHANGED parseVars

\* Router.Write: writer.Flush, first half.  With an empty buffer Flush
\* returns at once; otherwise buf[0:n] goes to the connection.
FlushWrite(d) ==
    /\ ~crashed
    /\ pc[d] = "flush"
    /\ IF wbuf = <<>>
         THEN /\ pc' = [pc EXCEPT ![d] = "read"]
              /\ wire' = wire
         ELSE /\ pc' = [pc EXCEPT ![d] = "flushing"]
              /\ wire' = wire \o wbuf
    /\ UNCHANGED <<connected, listening, crashed, conns, local, cur, nread,
                   wbuf, upc, ndecoded, lastRouted, acceptErrs>>
    /\ UNCHANGED parseVars

\* Router.Write: writer.Flush, second half: n = 0.  Write returns nil and
\* CopyTo goes on to the next line.
FlushReset(d) ==
    /\ ~crashed
    /\ pc[d] = "flushing"
    /\ wbuf' = <<>>
    /\ pc' = [pc EXCEPT ![d] = "read"]
    /\ UNCHANGED <<connected, listening, crashed, conns, local, cur, nread,
                   wire, upc, ndecoded, lastRouted, acceptErrs>>
    /\ UNCHANGED parseVars

\* Router.Write: Flush failed; Write returns the error and CopyTo breaks.
FlushError(d) ==
    /\ ~crashed
    /\ pc[d] = "flush"
    /\ pc' = [pc EXCEPT ![d] = "done"]
    /\ UNCHANGED <<connected, listening, crashed, conns, local, cur, nread,
                   wbuf, wire, upc, ndecoded, lastRouted, acceptErrs>>
    /\ UNCHANGED parseVars

\* ReadAll: a record was decoded whose id is not in conns; logged, skipped.
RouteUnknown ==
    /\ ~crashed
    /\ upc = "read"
    /\ ndecoded < MaxInbound
    /\ \E id \in LocalAddrs \cup {ForeignId} :
        /\ conns[id] = 0
        /\ lastRouted' = [id |-> id, to |-> 0, ok |-> FALSE]
    /\ ndecoded' = ndecoded + 1
    /\ UNCHANGED <<connected, listening, crashed, conns, local, pc, cur,
                   nread, wbuf, wire, upc, acceptErrs>>
    /\ UNCHANGED parseVars

\* ReadAll: a record was decoded and written to conns[id]; a failed write
\* is logged and the loop continues.
RouteWrite ==
    /\ ~crashed
    /\ upc = "read"
    /\ ndecoded < MaxInbound
    /\ \E id \in LocalAddrs \cup {ForeignId}, ok \in BOOLEAN :
        /\ conns[id] # 0
        /\ lastRouted' = [id |-> id, to |-> conns[id], ok |-> ok]
    /\ ndecoded' = ndecoded + 1
    /\ UNCHANGED <<connected, listening, crashed, conns, local, pc, cur,
                   nread, wbuf, wire, upc, acceptErrs>>
    /\ UNCHANGED parseVars

\* ReadAll: Decode failed; logged, and the loop breaks.
DecodeError ==
    /\ ~crashed
    /\ upc = "read"
    /\ upc' = "done"
    /\ UNCHANGED <<connected, listening, crashed, conns, local, pc, cur,
                   nread, wbuf, wire, ndecoded, lastRouted, acceptErrs>>
    /\ UNCHANGED parseVars

vars == <<routerVars, parseVars>>

\* ------------------------------------------------------------------------
\* Strings: sequences of one-character strings
\* ------------------------------------------------------------------------

SP == " "
COLON == ":"
COMMA == ","
\* U+00A0 NO-BREAK SPACE; its compatibility decomposition is U+0020
NBSP == "nbsp"
\* U+0301 COMBINING ACUTE ACCENT
ACUTE == "acute"
\* U+00E9, and its upper case U+00C9
EACUTE == "e-acute"
EACUTEUP == "E-acute"

Lower == <<"a","b","c","d","e","f","g","h","i","j","k","l","m",
           "n","o","p","q","r","s","t","u","v","w","x","y","z">>
Upper == <<"A","B","C","D","E","F","G","H","I","J","K","L","M",
           "N","O","P","Q","R","S","T","U","V","W","X","Y","Z">>

\* unicode.ToUpper of one character
UpperChar(c) ==
    IF \E i \in 1 .. Len(Lower) : Lower[i] = c
      THEN Upper[CHOOSE i \in 1 .. Len(Lower) : Lower[i] = c]
      ELSE IF c = EACUTE THEN EACUTEUP ELSE c

\* strings.ToUpper
ToUpper(s) == [i \in 1 .. Len(s) |-> UpperChar(s[i])]

\* strings.HasPrefix(s, c) for a one-character prefix
HasPrefix(s, c) == Len(s) > 0 /\ s[1] = c

\* s[from:], with from counted from 1
Drop(s, from) == SubSeq(s, from, Len(s))

\* canonical composition: U+0065 U+0301 becomes U+00E9
RECURSIVE Compose(_)
Compose(s) ==
    IF Len(s) = 0 THEN <<>>
    ELSE IF Len(s) >= 2 /\ s[1] = "e" /\ s[2] = ACUTE
      THEN <<EACUTE>> \o Compose(Drop(s, 3))
      ELSE <<s[1]>> \o Compose(Drop(s, 2))

\* norm.NFC.String
NFC(s) == Compose(s)

\* norm.NFKC.String: compatibility decomposition, then canonical composition
NFKC(s) == Compose([i \in 1 .. Len(s) |-> IF s[i] = NBSP THEN SP ELSE s[i]])

\* index of the first c in s, or 0
FirstIndex(s, c) ==
    IF \E i \in 1 .. Len(s) : s[i] = c
      THEN CHOOSE i \in 1 .. Len(s) : s[i] = c /\ \A j \in 1 .. i - 1 : s[j] # c
      ELSE 0

\* index of the first character other than c at or after from, or Len(s)+1
FirstOther(s, c, from) ==
    IF \E i \in from .. Len(s) : s[i] # c
      THEN CHOOSE i \in from .. Len(s) :
               s[i] # c /\ \A j \in from .. i - 1 : s[j] = c
      ELSE Len(s) + 1

\* splitArg: spacesExpr.Split(line, 2), the first piece and the second
splitArg(s) ==
    LET i == FirstIndex(s, SP) IN
    IF i = 0
      THEN [arg |-> s, rest |-> <<>>]
      ELSE [arg |-> SubSeq(s, 1, i - 1),
            rest |-> Drop(s, FirstOther(s, SP, i))]

\* the loop of ParseLine
RECURSIVE ParseArgs(_, _)
ParseArgs(s, args) ==
    IF Len(s) = 0 THEN args
    ELSE IF HasPrefix(s, COLON)
      THEN Append(args, NFC(Drop(s, 2)))
      ELSE LET sp == splitArg(s) IN
           ParseArgs(sp.rest, Append(args, NFKC(sp.arg)))

ParseLine(s) ==
    LET s1 == IF HasPrefix(s, COLON) THEN splitArg(s).rest ELSE s
        sp == splitArg(s1)
    IN  [command |-> ToUpper(sp.arg), args |-> ParseArgs(sp.rest, <<>>)]

\* strings.Split(s, ",")
RECURSIVE SplitComma(_)
SplitComma(s) ==
    LET i == FirstIndex(s, COMMA) IN
    IF i = 0 THEN <<s>>
    ELSE <<SubSeq(s, 1, i - 1)>> \o SplitComma(Drop(s, i + 1))

\* spacesExpr.Split(s, -1)
RECURSIVE SplitSpaces(_)
SplitSpaces(s) ==
    LET i == FirstIndex(s, SP) IN
    IF i = 0 THEN <<s>>
    ELSE <<SubSeq(s, 1, i - 1)>> \o SplitSpaces(Drop(s, FirstOther(s, SP, i)))

Digits == <<"0","1","2","3","4","5","6","7","8","9">>

IsDigit(c) == \E i \in 1 .. 10 : Digits[i] = c

DigitVal(c) == (CHOOSE i \in 1 .. 10 : Digits[i] = c) - 1

\* strconv.ParseUint(s, 10, bits): a syntax error for an empty string or a
\* character that is no digit, a range error above 2^bits - 1
RECURSIVE ParseDigits(_, _, _)
ParseDigits(s, n, maxVal) ==
    IF Len(s) = 0 THEN [ok |-> TRUE, val |-> n]
    ELSE IF ~IsDigit(s[1]) THEN [ok |-> FALSE, val |-> 0]
    ELSE IF n * 10 + DigitVal(s[1]) > maxVal THEN [ok |-> FALSE, val |-> maxVal]
    ELSE ParseDigits(Drop(s, 2), n * 10 + DigitVal(s[1]), maxVal)

ParseUint(s, bits) ==
    IF Len(s) = 0 THEN [ok |-> FALSE, val |-> 0]
    ELSE ParseDigits(s, 0, 2 ^ bits - 1)

\* a & b on unsigned integers
RECURSIVE BitAnd(_, _)
BitAnd(a, b) ==
    IF a = 0 \/ b = 0 THEN 0
    ELSE (a % 2) * (b % 2) + 2 * BitAnd(a \div 2, b \div 2)

\* ------------------------------------------------------------------------
\* Command values and the two parse errors
\* ------------------------------------------------------------------------

NotEnoughArgsError == "not enough arguments"
ErrParseCommand == "failed to parse message"

NilCmd == [kind |-> "nil"]

Ok(cmd) == [cmd |-> cmd, err |-> "", panic |-> FALSE]
Fail(err) == [cmd |-> NilCmd, err |-> err, panic |-> FALSE]
\* the constructor did not return: index out of range
Panicked == [cmd |-> NilCmd, err |-> "", panic |-> TRUE]

\* ModeOp and the mode letters
Add == "+"
Remove == "-"
List == "="
WallOps == "w"
Invisible == "i"
ArgModes == {"k", "b", "e", "I", "l", "o", "O", "v"}

\* IsChannel: a channel name starts with one of the channel prefixes
IsChannel(s) == Len(s) > 1 /\ s[1] \in {"#", "&", "!", "+"}

NewUnknownCommand(args) == [kind |-> "UNKNOWN", args |-> args]

NewPingCommand(args) ==
    IF Len(args) < 1 THEN Fail(NotEnoughArgsError)
    ELSE Ok([kind |-> "PING", server |-> args[1],
             server2 |-> IF Len(args) > 1 THEN args[2] ELSE <<>>])

NewPongCommand(args) ==
    IF Len(args) < 1 THEN Fail(NotEnoughArgsError)
    ELSE Ok([kind |-> "PONG", server1 |-> args[1],
             server2 |-> IF Len(args) > 1 THEN args[2] ELSE <<>>])

\* A stored credential hash, and the nil []byte of a credential that is not
\* configured.  A hash is known by the plaintext it was made from.
NoHash == [set |-> FALSE, of |-> <<>>]
HashOf(plaintext) == [set |-> TRUE, of |-> plaintext]

ErrMismatch == "hash is not the hash of the password"

\* ComparePassword(hash, password): nil or the error of the comparison
ComparePassword(hash, password) ==
    IF hash.of = password THEN "" ELSE ErrMismatch

\* PassCommand{password: args[0]}: hash and err are left at their zero values
NewPassCommand(args) ==
    IF Len(args) < 1 THEN Fail(NotEnoughArgsError)
    ELSE Ok([kind |-> "PASS", password |-> args[1], hash |-> NoHash,
             err |-> ""])

NewNickCommand(args) ==
    IF Len(args) # 1 THEN Fail(NotEnoughArgsError)
    ELSE Ok([kind |-> "NICK", nickname |-> args[1]])

NewUserCommand(args) ==
    IF Len(args) # 4 THEN Fail(NotEnoughArgsError)
    ELSE LET mode == ParseUint(args[2], 8) IN
         IF mode.ok
           THEN Ok([kind |-> "USER2812", username |-> args[1],
                    mode |-> mode.val % 256, unused |-> args[3],
                    realname |-> args[4]])
           ELSE Ok([kind |-> "USER1459", username |-> args[1],
                    hostname |-> args[2], servername |-> args[3],
                    realname |-> args[4]])

\* Flags testing bits 1 and 2 in place of bits 2 and 3
FlagsBitsShifted(cmd) ==
    (IF BitAnd(cmd.mode, 2) = 2 THEN <<WallOps>> ELSE <<>>)
    \o (IF BitAnd(cmd.mode, 4) = 4 THEN <<Invisible>> ELSE <<>>)

\* RFC2812UserCommand.Flags
Flags(cmd) ==
    (IF BitAnd(cmd.mode, 4) = 4 THEN <<WallOps>> ELSE <<>>)
    \o (IF BitAnd(cmd.mode, 8) = 8 THEN <<Invisible>> ELSE <<>>)

NewQuitCommand(args) ==
    Ok([kind |-> "QUIT", message |-> IF Len(args) > 0 THEN args[1] ELSE <<>>])

\* a Go map filled in order from two lists: the last entry of a key wins
PairMap(ks, vs) ==
    [k \in {ks[i] : i \in 1 .. Len(ks)} |->
        vs[CHOOSE i \in 1 .. Len(ks) :
               ks[i] = k /\ \A j \in i + 1 .. Len(ks) : ks[j] # k]]

NewJoinCommand(args) ==
    IF Len(args) = 0 THEN Fail(NotEnoughArgsError)
    ELSE IF args[1] = <<"0">>
      THEN Ok([kind |-> "JOIN", channels |-> <<>>, zero |-> TRUE])
    ELSE LET channels == SplitComma(args[1])
             given == IF Len(args) > 1 THEN SplitComma(args[2]) ELSE <<>>
             keys == [i \in 1 .. Len(channels) |->
                         IF i <= Len(given) THEN given[i] ELSE <<>>]
         IN  IF Len(given) > Len(channels)
               THEN Panicked
               ELSE Ok([kind |-> "JOIN", channels |-> PairMap(channels, keys),
                        zero |-> FALSE])

NewPartCommand(args) ==
    IF Len(args) < 1 THEN Fail(NotEnoughArgsError)
    ELSE Ok([kind |-> "PART", channels |-> SplitComma(args[1]),
             message |-> IF Len(args) > 1 THEN args[2] ELSE <<>>])

NewPrivMsgCommand(args) ==
    IF Len(args) < 2 THEN Fail(NotEnoughArgsError)
    ELSE Ok([kind |-> "PRIVMSG", target |-> args[1], message |-> args[2]])

NewTopicCommand(args) ==
    IF Len(args) < 1 THEN Fail(NotEnoughArgsError)
    ELSE Ok([kind |-> "TOPIC", channel |-> args[1],
             setTopic |-> Len(args) > 1,
             topic |-> IF Len(args) > 1 THEN args[2] ELSE <<>>])

\* ModeChanges.String: the loop over the changes
RECURSIVE ModeChangesLoop(_, _, _)
ModeChangesLoop(changes, op, str) ==
    IF Len(changes) = 0 THEN str
    ELSE IF changes[1].op = op
      THEN ModeChangesLoop(Tail(changes), op, Append(str, changes[1].mode))
      ELSE ModeChangesLoop(Tail(changes), changes[1].op,
                           str \o <<SP, changes[1].op>>)

ModeChangesString(changes) ==
    IF Len(changes) = 0 THEN <<>>
    ELSE ModeChangesLoop(changes, changes[1].op, <<changes[1].op>>)

\* NewUserModeCommand: the loop over args[1:]
RECURSIVE UserModeLoop(_, _)
UserModeLoop(rest, changes) ==
    IF Len(rest) = 0 THEN [ok |-> TRUE, changes |-> changes]
    ELSE IF Len(rest[1]) = 0 THEN UserModeLoop(Tail(rest), changes)
    ELSE LET modeChange == rest[1]
             op == modeChange[1]
         IN  IF op # Add /\ op # Remove
               THEN [ok |-> FALSE, changes |-> <<>>]
               ELSE UserModeLoop(Tail(rest),
                        changes \o [i \in 1 .. Len(modeChange) - 1 |->
                                       [mode |-> modeChange[i + 1], op |-> op]])

NewUserModeCommand(args) ==
    LET r == UserModeLoop(Tail(args), <<>>) IN
    IF r.ok
      THEN Ok([kind |-> "MODE", nickname |-> args[1], changes |-> r.changes])
      ELSE Fail(ErrParseCommand)

\* ChannelModeChanges.String
ChannelModeChangesString(changes) ==
    IF Len(changes) = 0 THEN <<>>
    ELSE LET RECURSIVE Args(_)
             Args(cs) ==
                 IF Len(cs) = 0 THEN <<>>
                 ELSE (IF cs[1].arg = <<>> THEN <<>> ELSE <<SP>> \o cs[1].arg)
                      \o Args(Tail(cs))
         IN  <<IF changes[1].op = Remove THEN "-" ELSE "+">>
             \o [i \in 1 .. Len(changes) |-> changes[i].mode]
             \o Args(changes)

\* NewChannelModeCommand: the loop over the letters of one mode argument
RECURSIVE ChannelLetters(_, _, _, _, _)
ChannelLetters(modeArg, args, op, skipArgs, changes) ==
    IF Len(modeArg) = 0 THEN [skipArgs |-> skipArgs, changes |-> changes]
    ELSE LET mode == modeArg[1]
             takes == mode \in ArgModes /\ Len(args) > skipArgs
             change == [mode |-> mode, op |-> op,
                        arg |-> IF takes THEN args[skipArgs + 1] ELSE <<>>]
         IN  ChannelLetters(Tail(modeArg), args, op,
                            IF takes THEN skipArgs + 1 ELSE skipArgs,
                            Append(changes, change))

\* NewChannelModeCommand: the loop over the arguments
RECURSIVE ChannelModeLoop(_, _)
ChannelModeLoop(args, changes) ==
    IF Len(args) = 0 THEN changes
    ELSE IF Len(args[1]) = 0 THEN ChannelModeLoop(Tail(args), changes)
    ELSE LET signed == args[1][1] = Add \/ args[1][1] = Remove
             op == IF signed THEN args[1][1] ELSE List
             modeArg == IF signed THEN Tail(args[1]) ELSE args[1]
             r == ChannelLetters(modeArg, args, op, 1, changes)
         IN  ChannelModeLoop(Drop(args, r.skipArgs + 1), r.changes)

NewChannelModeCommand(args) ==
    Ok([kind |-> "CHANMODE", channel |-> args[1],
        changes |-> ChannelModeLoop(Tail(args), <<>>)])

NewModeCommand(args) ==
    IF Len(args) = 0 THEN Fail(NotEnoughArgsError)
    ELSE IF IsChannel(args[1]) THEN NewChannelModeCommand(args)
    ELSE NewUserModeCommand(args)

NewWhoisCommand(args) ==
    IF Len(args) < 1 THEN Fail(NotEnoughArgsError)
    ELSE Ok([kind |-> "WHOIS",
             target |-> IF Len(args) > 1 THEN args[1] ELSE <<>>,
             masks |-> SplitComma(IF Len(args) > 1 THEN args[2] ELSE args[1])])

NewWhoCommand(args) ==
    Ok([kind |-> "WHO", mask |-> IF Len(args) > 0 THEN args[1] ELSE <<>>,
        operatorOnly |-> Len(args) > 1 /\ args[2] = <<"o">>])

NewOperCommand(args) ==
    IF Len(args) < 2 THEN Fail(NotEnoughArgsError)
    ELSE Ok([kind |-> "OPER", name |-> args[1], password |-> args[2],
             hash |-> NoHash, err |-> ""])

NewCapCommand(args) ==
    IF Len(args) < 1 THEN Fail(NotEnoughArgsError)
    ELSE Ok([kind |-> "CAP", subCommand |-> ToUpper(args[1]),
             capabilities |->
                 IF Len(args) > 1
                   THEN LET strs == SplitSpaces(args[2]) IN
                        {strs[i] : i \in 1 .. Len(strs)}
                   ELSE {}])

\* LookupHostname: the name the resolver gives, or the address itself
LookupHostname(addr) == addr

NewProxyCommand(args) ==
    IF Len(args) < 5 THEN Fail(NotEnoughArgsError)
    ELSE Ok([kind |-> "PROXY", net |-> args[1], sourceIP |-> args[2],
             destIP |-> args[3], sourcePort |-> args[4], destPort |-> args[5],
             hostname |-> LookupHostname(args[2])])

NewAwayCommand(args) ==
    Ok([kind |-> "AWAY", text |-> IF Len(args) > 0 THEN args[1] ELSE <<>>,
        away |-> Len(args) > 0])

NewIsOnCommand(args) ==
    IF Len(args) = 0 THEN Fail(NotEnoughArgsError)
    ELSE Ok([kind |-> "ISON", nicks |-> args])

NewMOTDCommand(args) ==
    Ok([kind |-> "MOTD", target |-> IF Len(args) > 0 THEN args[1] ELSE <<>>])

NewNoticeCommand(args) ==
    IF Len(args) < 2 THEN Fail(NotEnoughArgsError)
    ELSE Ok([kind |-> "NOTICE", target |-> args[1], message |-> args[2]])

NewKickCommand(args) ==
    IF Len(args) < 2 THEN Fail(NotEnoughArgsError)
    ELSE LET channels == SplitComma(args[1])
             users == SplitComma(args[2])
         IN  IF Len(channels) # Len(users) /\ Len(users) # 1
               THEN Fail(NotEnoughArgsError)
               ELSE Ok([kind |-> "KICK",
                        kicks |-> PairMap(channels,
                            [i \in 1 .. Len(channels) |->
                                IF Len(users) = 1 THEN users[1] ELSE users[i]]),
                        comment |-> IF Len(args) > 2 THEN args[3] ELSE <<>>])

NewListCommand(args) ==
    Ok([kind |-> "LIST",
        channels |-> IF Len(args) > 0 THEN SplitComma(args[1]) ELSE <<>>,
        target |-> IF Len(args) > 1 THEN args[2] ELSE <<>>])

NewNamesCommand(args) ==
    Ok([kind |-> "NAMES",
        channels |-> IF Len(args) > 0 THEN SplitComma(args[1]) ELSE <<>>,
        target |-> IF Len(args) > 1 THEN args[2] ELSE <<>>])

NewDebugCommand(args) ==
    IF Len(args) = 0 THEN Fail(NotEnoughArgsError)
    ELSE Ok([kind |-> "DEBUG", subCommand |-> ToUpper(args[1])])

NewVersionCommand(args) ==
    Ok([kind |-> "VERSION", target |-> IF Len(args) > 0 THEN args[1] ELSE <<>>])

NewInviteCommand(args) ==
    IF Len(args) < 2 THEN Fail(NotEnoughArgsError)
    ELSE Ok([kind |-> "INVITE", nickname |-> args[1], channel |-> args[2]])

NewTimeCommand(args) ==
    Ok([kind |-> "TIME", target |-> IF Len(args) > 0 THEN args[1] ELSE <<>>])

NewKillCommand(args) ==
    IF Len(args) < 2 THEN Fail(NotEnoughArgsError)
    ELSE Ok([kind |-> "KILL", nickname |-> args[1], comment |-> args[2]])

\* ------------------------------------------------------------------------
\* The command codes and the dispatcher
\* ------------------------------------------------------------------------

AWAY == <<"A","W","A","Y">>
CAP == <<"C","A","P">>
DEBUG == <<"D","E","B","U","G">>
INVITE == <<"I","N","V","I","T","E">>
ISON == <<"I","S","O","N">>
JOIN == <<"J","O","I","N">>
KICK == <<"K","I","C","K">>
KILL == <<"K","I","L","L">>
LIST == <<"L","I","S","T">>
MODE == <<"M","O","D","E">>
MOTD == <<"M","O","T","D">>
NAMES == <<"N","A","M","E","S">>
NICK == <<"N","I","C","K">>
NOTICE == <<"N","O","T","I","C","E">>
OPER == <<"O","P","E","R">>
PART == <<"P","A","R","T">>
PASS == <<"P","A","S","S">>
PING == <<"P","I","N","G">>
PONG == <<"P","O","N","G">>
PRIVMSG == <<"P","R","I","V","M","S","G">>
PROXY == <<"P","R","O","X","Y">>
QUIT == <<"Q","U","I","T">>
TIME == <<"T","I","M","E">>
TOPIC == <<"T","O","P","I","C">>
USER == <<"U","S","E","R">>
VERSION == <<"V","E","R","S","I","O","N">>
WHO == <<"W","H","O">>
WHOIS == <<"W","H","O","I","S">>

\* the keys of parseCommandFuncs
parseCommandFuncs ==
    {AWAY, CAP, DEBUG, INVITE, ISON, JOIN, KICK, KILL, LIST, MODE, MOTD, NAMES,
     NICK, NOTICE, OPER, PART, PASS, PING, PONG, PRIVMSG, PROXY, QUIT, TIME,
     TOPIC, USER, VERSION, WHO, WHOIS}

\* parseCommandFuncs[code](args)
Construct(code, args) ==
    CASE code = AWAY -> NewAwayCommand(args)
      [] code = CAP -> NewCapCommand(args)
      [] code = DEBUG -> NewDebugCommand(args)
      [] code = INVITE -> NewInviteCommand(args)
      [] code = ISON -> NewIsOnCommand(args)
      [] code = JOIN -> NewJoinCommand(args)
      [] code = KICK -> NewKickCommand(args)
      [] code = KILL -> NewKillCommand(args)
      [] code = LIST -> NewListCommand(args)
      [] code = MODE -> NewModeCommand(args)
      [] code = MOTD -> NewMOTDCommand(args)
      [] code = NAMES -> NewNamesCommand(args)
      [] code = NICK -> NewNickCommand(args)
      [] code = NOTICE -> NewNoticeCommand(args)
      [] code = OPER -> NewOperCommand(args)
      [] code = PART -> NewPartCommand(args)
      [] code = PASS -> NewPassCommand(args)
      [] code = PING -> NewPingCommand(args)
      [] code = PONG -> NewPongCommand(args)
      [] code = PRIVMSG -> NewPrivMsgCommand(args)
      [] code = PROXY -> NewProxyCommand(args)
      [] code = QUIT -> NewQuitCommand(args)
      [] code = TIME -> NewTimeCommand(args)
      [] code = TOPIC -> NewTopicCommand(args)
      [] code = USER -> NewUserCommand(args)
      [] code = VERSION -> NewVersionCommand(args)
      [] code = WHO -> NewWhoCommand(args)
      [] code = WHOIS -> NewWhoisCommand(args)

\* BaseCommand.SetCode
SetCode(cmd, code) == [c \in {"code"} \cup DOMAIN cmd |->
                          IF c = "code" THEN code ELSE cmd[c]]

\* ParseCommand stamping only what a constructor of the table returned
ParseCommandUnknownUnstamped(s) ==
    LET parsed == ParseLine(s)
        code == parsed.command
    IN  IF code \notin parseCommandFuncs
          THEN Ok(NewUnknownCommand(parsed.args))
          ELSE LET r == Construct(code, parsed.args) IN
               IF r.cmd.kind # "nil"
                 THEN [r EXCEPT !.cmd = SetCode(r.cmd, code)]
                 ELSE r

ParseCommand(s) ==
    LET parsed == ParseLine(s)
        code == parsed.command
        r == IF code \notin parseCommandFuncs
               THEN Ok(NewUnknownCommand(parsed.args))
               ELSE Construct(code, parsed.args)
    IN  IF r.cmd.kind # "nil"
          THEN [r EXCEPT !.cmd = SetCode(r.cmd, code)]
          ELSE r

\* ------------------------------------------------------------------------
\* The lines given to the parser
\* ------------------------------------------------------------------------

LowerOf(s) ==
    [i \in 1 .. Len(s) |->
        IF \E j \in 1 .. Len(Upper) : Upper[j] = s[i]
          THEN Lower[CHOOSE j \in 1 .. Len(Upper) : Upper[j] = s[i]]
          ELSE s[i]]

\* how a line of each family starts
Heads(f) ==
    CASE f = "line" ->
             {<<>>, <<":", "p", " ">>, <<":", "p", " ">> \o NICK, LowerOf(PING),
              PROXY \o <<" ","a"," ","a"," ","a"," ","a">>,
              USER \o <<" ","a"," ","a"," ","a">>,
              USER \o <<" ","a"," ","1"," ","a">>}
             \cup parseCommandFuncs
      [] f = "join" ->
             {JOIN \o <<" ">>, LowerOf(JOIN) \o <<" ">>,
              <<":", "p", " ">> \o JOIN \o <<" ">>}
      [] f = "usermode" -> {MODE \o <<" ", "n", " ">>}
      [] f = "chanmode" -> {MODE \o <<" ", "#", "c", " ">>}
      [] f = "user" -> {USER \o <<" ", "a", " ">>}
      [] f = "cred" -> {PASS \o <<" ">>, OPER \o <<" ">>}

\* what can be appended to a line of each family
Pieces(f) ==
    CASE f = "line" -> {<<" ">>, <<":">>, <<"a">>, <<NBSP>>, <<"e", ACUTE>>}
      [] f = "join" -> {<<"#", "a">>, <<"#", "b">>, <<",">>, <<" ">>, <<"k">>,
                        <<"0">>}
      [] f = "usermode" -> {<<"+">>, <<"-">>, <<"i">>, <<"w">>, <<"o">>, <<" ">>}
      [] f = "chanmode" -> {<<"+">>, <<"-">>, <<"o">>, <<"v">>,
                            <<" ", "a", "l">>, <<" ", "b", "o">>}
      [] f = "user" -> {<<"0">>, <<"1">>, <<"2">>, <<"4">>, <<"5">>, <<"6">>,
                        <<"8">>, <<"h">>, <<" ", "*", " ", "r">>}
      [] f = "cred" -> {<<"a">>, <<"b">>, <<"o">>, <<" ">>}

MaxPieces(f) ==
    CASE f = "line" -> MaxLinePieces
      [] f = "join" -> MaxJoinPieces
      [] f = "usermode" -> MaxUserModePieces
      [] f = "chanmode" -> MaxChanModePieces
      [] f = "user" -> MaxUserPieces
      [] f = "cred" -> MaxCredPieces

NoResult == [cmd |-> NilCmd, err |-> "", panic |-> FALSE]

ParseInit(families) ==
    /\ family \in families
    /\ line \in Heads(family)
    /\ npieces = 0
    /\ phase = "build"
    /\ result = NoResult
    /\ derived = <<>>

\* the client sends more of the line
AppendPiece ==
    /\ phase = "build"
    /\ npieces < MaxPieces(family)
    /\ \E p \in Pieces(family) : line' = line \o p
    /\ npieces' = npieces + 1
    /\ UNCHANGED <<family, phase, result, derived>>
    /\ UNCHANGED routerVars

\* ParseCommand(line)
Parse ==
    /\ phase = "build"
    /\ result' = ParseCommand(line)
    /\ phase' = "parsed"
    /\ UNCHANGED <<family, line, npieces, derived>>
    /\ UNCHANGED routerVars

\* RFC2812UserCommand.Flags on the parsed command
CallFlags ==
    /\ phase = "parsed"
    /\ result.cmd.kind = "USER2812"
    /\ derived' = Flags(result.cmd)
    /\ phase' = "inspected"
    /\ UNCHANGED <<family, line, npieces, result>>
    /\ UNCHANGED routerVars

\* ModeChanges.String on the changes of the parsed user-mode command
RenderUserModes ==
    /\ phase = "parsed"
    /\ result.cmd.kind = "MODE"
    /\ derived' = ModeChangesString(result.cmd.changes)
    /\ phase' = "inspected"
    /\ UNCHANGED <<family, line, npieces, result>>
    /\ UNCHANGED routerVars

\* ChannelModeChanges.String on the changes of the parsed channel-mode command
RenderChannelModes ==
    /\ phase = "parsed"
    /\ result.cmd.kind = "CHANMODE"
    /\ derived' = ChannelModeChangesString(result.cmd.changes)
    /\ phase' = "inspected"
    /\ UNCHANGED <<family, line, npieces, result>>
    /\ UNCHANGED routerVars

\* The server contexts a credential is loaded from: with or without a
\* global password, with or without an operator "o".
Servers ==
    { [password |-> pw, operators |-> ops] :
        pw \in {NoHash, HashOf(<<"a">>)},
        ops \in { [n \in {} |-> NoHash],
                  [n \in {<<"o">>} |-> HashOf(<<"a">>)] } }

\* m[k] of a Go map: the zero value for a key that is not in it
MapIndex(m, k) == IF k \in DOMAIN m THEN m[k] ELSE NoHash

\* a credential-bearing command was parsed
Credentialed ==
    /\ phase \in {"parsed", "loaded", "checked"}
    /\ result.cmd.kind \in {"PASS", "OPER"}

\* PassCommand.LoadPassword(server)
PassLoadPassword ==
    /\ Credentialed
    /\ result.cmd.kind = "PASS"
    /\ \E server \in Servers :
          result' = [result EXCEPT !.cmd.hash = server.password]
    /\ phase' = "loaded"
    /\ UNCHANGED <<family, line, npieces, derived>>
    /\ UNCHANGED routerVars

\* OperCommand.LoadPassword(server)
OperLoadPassword ==
    /\ Credentialed
    /\ result.cmd.kind = "OPER"
    /\ \E server \in Servers :
          result' = [result EXCEPT
                        !.cmd.hash = MapIndex(server.operators, result.cmd.name)]
    /\ phase' = "loaded"
    /\ UNCHANGED <<family, line, npieces, derived>>
    /\ UNCHANGED routerVars

\* PassCommand.CheckPassword, which OperCommand has by embedding: with a nil
\* hash it returns at once; otherwise err is what ComparePassword returns.
CheckPassword ==
    /\ Credentialed
    /\ result' = IF result.cmd.hash = NoHash THEN result
                 ELSE [result EXCEPT
                          !.cmd.err = ComparePassword(result.cmd.hash,
                                                      result.cmd.password)]
    /\ phase' = "checked"
    /\ UNCHANGED <<family, line, npieces, derived>>
    /\ UNCHANGED routerVars

\* ------------------------------------------------------------------------
\* Specifications
\* ------------------------------------------------------------------------

ParseIdle ==
    /\ family = "none"
    /\ line = <<>>
    /\ npieces = 0
    /\ phase = "idle"
    /\ result = NoResult
    /\ derived = <<>>

Init == RouterInit /\ ParseIdle

Next ==
    \/ Connect
    \/ Listen
    \/ Accept
    \/ AcceptError
    \/ RouteUnknown
    \/ RouteWrite
    \/ DecodeError
    \/ \E d \in Downlinks : ReadLine(d)
    \/ \E d \in Downlinks : ReadError(d)
    \/ \E d \in Downlinks : WriteNoUplink(d)
    \/ \E d \in Downlinks : EncodeBegin(d)
    \/ \E d \in Downlinks : EncodeEnd(d)
    \/ \E d \in Downlinks : EncodeError(d)
    \/ \E d \in Downlinks : FlushWrite(d)
    \/ \E d \in Downlinks : FlushReset(d)
    \/ \E d \in Downlinks : FlushError(d)

\* the Router: the acceptor, the uplink reader and the downlink readers
Spec == Init /\ [][Next]_vars

InitLine == RouterInit /\ ParseInit({"line"})
InitJoin == RouterInit /\ ParseInit({"join"})
InitMode == RouterInit /\ ParseInit({"usermode", "chanmode"})
InitUser == RouterInit /\ ParseInit({"user"})
InitCred == RouterInit /\ ParseInit({"cred"})

NextParse == AppendPiece \/ Parse
NextMode == AppendPiece \/ Parse \/ RenderUserModes \/ RenderChannelModes
NextUser == AppendPiece \/ Parse \/ CallFlags
NextCred ==
    AppendPiece \/ Parse \/ PassLoadPassword \/ OperLoadPassword
        \/ CheckPassword

\* the tokenizer and the dispatcher on lines of any command
SpecLine == InitLine /\ [][NextParse]_vars
\* JOIN lines
SpecJoin == InitJoin /\ [][NextParse]_vars
\* MODE lines, and the string form of the parsed changes
SpecMode == InitMode /\ [][NextMode]_vars
\* USER lines, and the flags of the parsed command
SpecUser == InitUser /\ [][NextUser]_vars

SpecCred == InitCred /\ [][NextCred]_vars

\* ------------------------------------------------------------------------
\* Router properties
\* ------------------------------------------------------------------------

\* the messages of the records on the uplink that carry the id of d
UplinkOf(d) ==
    LET recs == SelectSeq(wire, LAMBDA r : r.Id = Id(d)) IN
    [i \in 1 .. Len(recs) |-> recs[i].Message]

\* the lines CopyTo has read from d so far
LinesReadFrom(d) == [k \in 1 .. nread[d] |-> LineOf(d, k)]

IsPrefix(s, t) == Len(s) <= Len(t) /\ \A i \in 1 .. Len(s) : s[i] = t[i]

\* C1: for every downlink D, the records on the uplink tagged with D's id are
\* a prefix of the lines read from D, in order, each line exactly once and
\* none of another downlink among them.
C1_UplinkIsPrefixOfLinesRead ==
    \A d \in Accepted : IsPrefix(UplinkOf(d), LinesReadFrom(d))

\* The same with every downlink under an id of its own: what the uplink
\* carries of the lines of D, whatever their tag, is a prefix of the lines
\* read from D.  (Violated as well: Flush is not serialised with Encode.)
C1_OwnLinesArePrefix ==
    \A d \in Accepted :
        LET recs == SelectSeq(wire, LAMBDA r : r.Message[1] = d) IN
        IsPrefix([i \in 1 .. Len(recs) |-> recs[i].Message], LinesReadFrom(d))

\* C2: every accepted downlink is found in the registry under its own id, so
\* no two accepted downlinks share a key, and a decoded record is written to
\* the one downlink accepted with its id.
C2_RegisteredUnderOwnId ==
    /\ \A d \in Accepted : conns[Id(d)] = d
    /\ lastRouted.to # 0 =>
          \A d \in Accepted : Id(d) = lastRouted.id <=> d = lastRouted.to

\* the goroutines that are inside Encode or inside Flush on the uplink writer
InsideUplinkWriter == {d \in Downlinks : pc[d] \in {"encoding", "flushing"}}

\* C10: no two tasks are at once inside an operation on a shared object other
\* than the registry: at most one downlink reader is inside Encode or Flush on
\* the uplink encoder and its buffered writer.
C10_UplinkWriterNotShared == Cardinality(InsideUplinkWriter) <= 1

\* ------------------------------------------------------------------------
\* Parser properties
\* ------------------------------------------------------------------------

\* C3: ParseCommand returns a command and no error, or no command and one of
\* the two parse errors; it never aborts with an index out of range.
C3_ParseCommandTotal ==
    phase = "parsed" =>
        /\ ~result.panic
        /\ \/ result.cmd.kind # "nil" /\ result.err = ""
           \/ /\ result.cmd.kind = "nil"
              /\ result.err \in {NotEnoughArgsError, ErrParseCommand}

ChannelLine == MODE \o <<" ","#","c"," ","+","o","-","v"," ","a","l"," ","b","o">>

\* C4: MODE #c +o-v al bo gives exactly (o, add, al), (v, remove, bo): a sign
\* inside a mode token switches the operation and is no mode change itself.
C4_ChannelModeSigns ==
    phase = "parsed" /\ line = ChannelLine =>
        /\ result.cmd.kind = "CHANMODE"
        /\ result.cmd.changes =
               << [mode |-> "o", op |-> Add, arg |-> <<"a", "l">>],
                  [mode |-> "v", op |-> Remove, arg |-> <<"b", "o">>] >>

UserLine == MODE \o <<" ","n"," ","+","i","w","-","o">>

\* C5: MODE n +iw-o gives exactly (i, add), (w, add), (o, remove): a sign
\* inside the argument switches the operation and is no mode letter.
C5_UserModeSigns ==
    phase = "parsed" /\ line = UserLine =>
        /\ result.cmd.kind = "MODE"
        /\ result.cmd.changes =
               << [mode |-> "i", op |-> Add], [mode |-> "w", op |-> Add],
                  [mode |-> "o", op |-> Remove] >>

\* every letter once, in order, the sign at the start of each run of one
\* operation and only there
RECURSIVE RunsOf(_, _)
RunsOf(changes, i) ==
    IF i > Len(changes) THEN <<>>
    ELSE (IF i = 1 \/ changes[i].op # changes[i - 1].op
            THEN <<changes[i].op>> ELSE <<>>)
         \o <<changes[i].mode>> \o RunsOf(changes, i + 1)

\* C6: the string form of a non-empty user-mode change list (of mode letters)
\* holds every mode letter once, in list order, in maximal runs of one
\* operation, with the sign at the start of each run and only there; so
\* (i, add), (w, add), (o, remove) is rendered +iw-o.
C6_StringGroupsRuns ==
    /\ phase = "inspected"
    /\ result.cmd.kind = "MODE"
    /\ Len(result.cmd.changes) > 0
    /\ \A i \in 1 .. Len(result.cmd.changes) :
          result.cmd.changes[i].mode \notin {Add, Remove}
    => derived = RunsOf(result.cmd.changes, 1)

\* the value of a string of decimal digits
RECURSIVE DecimalValue(_)
DecimalValue(s) ==
    IF Len(s) = 0 THEN 0
    ELSE 10 * DecimalValue(SubSeq(s, 1, Len(s) - 1)) + DigitVal(s[Len(s)])

\* the text is an integer in 0 .. 255
IsUint8Text(s) ==
    /\ Len(s) > 0
    /\ \A i \in 1 .. Len(s) : IsDigit(s[i])
    /\ DecimalValue(s) <= 255

BitSet(m, b) == (m \div (2 ^ b)) % 2 = 1

InSeq(x, s) == \E i \in 1 .. Len(s) : s[i] = x

\* what C7 says of every 4-argument USER line but the line with m = 12
UserVariantAndFlags(args) ==
    /\ IsUint8Text(args[2]) =>
          /\ result.cmd.kind = "USER2812"
          /\ phase = "inspected" =>
                /\ InSeq(WallOps, derived) <=> BitSet(DecimalValue(args[2]), 2)
                /\ InSeq(Invisible, derived) <=> BitSet(DecimalValue(args[2]), 3)
    /\ ~IsUint8Text(args[2]) => result.cmd.kind = "USER1459"

\* C7 as stated: a 4-argument USER whose second argument is an unsigned 8-bit
\* integer m builds the modern variant, with wallops iff bit 2 of m and
\* invisible iff bit 3 of m; for m = 12 wallops but not invisible; any other
\* second argument builds the legacy variant.
C7_FlagsOfTwelveOriginal ==
    phase # "build" =>
        LET args == ParseLine(line).args IN
        Len(args) = 4 =>
            /\ UserVariantAndFlags(args)
            /\ phase = "inspected" /\ IsUint8Text(args[2])
                  /\ DecimalValue(args[2]) = 12 =>
                  InSeq(WallOps, derived) /\ ~InSeq(Invisible, derived)

\* C7 as amended: the same, but for m = 12 (bits 2 and 3 both set) the flags
\* are wallops and invisible.
C7_UserFlags ==
    phase # "build" =>
        LET args == ParseLine(line).args IN
        Len(args) = 4 =>
            /\ UserVariantAndFlags(args)
            /\ phase = "inspected" /\ IsUint8Text(args[2])
                  /\ DecimalValue(args[2]) = 12 =>
                  InSeq(WallOps, derived) /\ InSeq(Invisible, derived)

\* USER a 12 * r was parsed to the modern variant and its flags were read
C7_Witness ==
    /\ phase = "inspected"
    /\ line = USER \o <<" ","a"," ","1","2"," ","*"," ","r">>
    /\ result.cmd.kind = "USER2812"
    /\ result.cmd.mode = 12
    /\ derived = <<WallOps, Invisible>>

\* a ':' that starts a segment of the line after the command
ColonIntroduced(s) ==
    \E i \in 2 .. Len(s) : s[i] = COLON /\ s[i - 1] = SP

\* C8: every parameter but the last is non-empty and holds no space; only the
\* last may hold a space or be empty, and only when a leading ':' introduced
\* it; runs of spaces give no empty parameters.
C8_ParametersAreTokens ==
    phase = "parsed" =>
        LET args == ParseLine(line).args IN
        \A i \in 1 .. Len(args) :
            (args[i] = <<>> \/ InSeq(SP, args[i])) =>
                i = Len(args) /\ ColonIntroduced(line)

\* the first token of the line after an optional ':' prefix token
CodeToken(s) ==
    LET skip == IF Len(s) > 0 /\ s[1] = COLON
                  THEN IF FirstIndex(s, SP) = 0 THEN Len(s) + 1
                       ELSE FirstOther(s, SP, FirstIndex(s, SP))
                  ELSE 1
        stop == IF \E i \in skip .. Len(s) : s[i] = SP
                  THEN CHOOSE i \in skip .. Len(s) :
                           s[i] = SP /\ \A j \in skip .. i - 1 : s[j] # SP
                  ELSE Len(s) + 1
    IN  SubSeq(s, skip, stop - 1)

\* the code a command was stamped with
CodeOf(cmd) == IF "code" \in DOMAIN cmd THEN cmd.code ELSE <<"unstamped">>

HasLower(s) == \E i \in 1 .. Len(s) : InSeq(s[i], Lower) \/ s[i] = EACUTE

\* C9: a line whose upper-cased code is not in the constructor table gives no
\* error and an UNKNOWN command with the tokenized parameters and that code;
\* and every command returned is stamped with the tokenized code.
C9_UnknownIsNoError ==
    phase = "parsed" =>
        LET code == ToUpper(CodeToken(line)) IN
        /\ code \notin parseCommandFuncs =>
              /\ result.err = "" /\ ~result.panic
              /\ result.cmd.kind = "UNKNOWN"
              /\ result.cmd.args = ParseLine(line).args
        /\ result.cmd.kind # "nil" =>
              CodeOf(result.cmd) = code /\ ~HasLower(CodeOf(result.cmd))

\* ":p a a" was parsed: prefix dropped, UNKNOWN with code A and one parameter
C9_Witness ==
    /\ phase = "parsed"
    /\ line = <<":", "p", " ", "a", " ", "a">>
    /\ result.err = ""
    /\ result.cmd.kind = "UNKNOWN"
    /\ result.cmd.code = <<"A">>
    /\ result.cmd.args = << <<"a">> >>


\* the background tasks: the uplink reader (ReadAll), the acceptor (the
\* goroutine of Listen) and one reader per downlink (CopyTo)
UplinkReader == <<"uplink", 0>>
Acceptor == <<"acceptor", 0>>
Reader(d) == <<"reader", d>>

\* the tasks that are inside their loop
RunningTasks ==
    (IF upc = "read" THEN {UplinkReader} ELSE {})
        \cup (IF listening THEN {Acceptor} ELSE {})
        \cup {Reader(d) : d \in {e \in Downlinks : pc[e] \notin {"none", "done"}}}

\* the tasks a step takes out of their loop
Ended == RunningTasks \ RunningTasks'

\* a read, encode or flush failure in the reader of downlink d
DownlinkError(d) == ReadError(d) \/ EncodeError(d) \/ FlushError(d)

\* a record the uplink reader decoded and could not deliver: its id is not
\* registered, or the write to the target downlink failed
Skipped == RouteUnknown \/ (RouteWrite /\ ~lastRouted'.ok)

\* C11 as stated: a transport error ends the task it occurs in and no other:
\* a decode failure ends the uplink reader, an accept failure ends the
\* acceptor, a read or encode failure on a downlink ends that downlink's
\* reader; an undeliverable record is skipped and ends nothing.
C11_ErrorEndsItsTask ==
    [][ /\ DecodeError => Ended = {UplinkReader}
        /\ AcceptError => Ended = {Acceptor}
        /\ \A d \in Downlinks : DownlinkError(d) => Ended = {Reader(d)}
        /\ Skipped => Ended = {} ]_vars

\* C11, amended: a decode failure ends the uplink reader and nothing else, a
\* read, encode or flush failure on a downlink ends that downlink's reader and
\* nothing else; a failed Accept, like an undeliverable record, is logged and
\* skipped: the acceptor goes on to the next Accept and no task ends.
C11_OnlyFailingTaskEnds ==
    [][ /\ DecodeError => Ended = {UplinkReader}
        /\ AcceptError => Ended = {}
        /\ \A d \in Downlinks : DownlinkError(d) => Ended = {Reader(d)}
        /\ Skipped => Ended = {} ]_vars

\* an Accept failed, the uplink reader and the reader of downlink 1 have
\* ended on an error, and the acceptor and the reader of downlink 2 are
\* still in their loops
C11_Witness ==
    /\ acceptErrs > 0
    /\ upc = "done"
    /\ pc[1] = "done"
    /\ RunningTasks = {Acceptor, Reader(2)}


\* C12: once CheckPassword has been the last call on a PASS or OPER command,
\* whatever loads and checks came before, the recorded result is success
\* exactly if the hash loaded last is absent or is the hash of the password
\* supplied; a failure of an earlier check is gone after a check with no hash.
C12_ResultOfLastLoad ==
    (Credentialed /\ phase = "checked") =>
        (result.cmd.err = ""
            <=> \/ result.cmd.hash = NoHash
                \/ result.cmd.hash = HashOf(result.cmd.password))

====
